---------------------------- MODULE Spec2Model ----------------------------
(***************************************************************************)
(* BestPath::shortest_path (src/src/lib.rs): the partial-grid shortest-    *)
(* path planner.  One planning call is a sequential program:               *)
(*   from_vec_to_matrix (bounding box, lava pre-fill, known cells, the     *)
(*   discovery/estimation pass) -> change_matrix (the graph) ->            *)
(*   find_connected_targets -> build_path (dijkstra per iteration) ->      *)
(*   path_to_directions.                                                   *)
(* Vectors are modelled as functions over 0..n-1, so that every index of   *)
(* the model is the index the Rust code uses.  Tuples (a, b) are <<a, b>>: *)
(* Rust's .0 is [1] and .1 is [2].                                         *)
(***************************************************************************)
EXTENDS Integers, Sequences, FiniteSets, TLC

(***************************************************************************)
(* Bounds of the model.                                                    *)
(***************************************************************************)
\* Coordinates of the pipeline inputs range over -NegCoord..MaxCoord.
NegCoord == 1
MaxCoord == 0
\* Longest known-cell list and longest target list of the pipeline inputs.
MaxKnown == 2
MaxTargets == 1
\* Highest elevation of a tile.
MaxElev == 2
\* Side of the fully known square maps, and their longest target list.
Dim == 2
MaxGoals == 2
\* The calls away from the origin take their coordinates from 0..MaxShift.
MaxShift == 2

(***************************************************************************)
(* Program constants.                                                      *)
(***************************************************************************)
I32Max == 2147483647
INF == I32Max
\* Option::None of distance[v] (Option<i32>) and predecessor[v]
\* (Option<usize>): both hold only non-negative numbers when Some.
None == -1
\* get_cost of a tile that is not walkable.
ImpassableCost == 100000

(***************************************************************************)
(* Small helpers: 0-based vectors.                                         *)
(***************************************************************************)
MinOf(S) == CHOOSE m \in S : \A x \in S : m <= x
MaxOf(S) == CHOOSE m \in S : \A x \in S : m >= x
Range(s) == {s[k] : k \in DOMAIN s}
\* A Vec of length n as a function over 0..n-1.
Vec(n, Op(_)) == [k \in 0..(n - 1) |-> Op(k)]
VLen(v) == Cardinality(DOMAIN v)
VPush(v, e) == [k \in 0..VLen(v) |-> IF k < VLen(v) THEN v[k] ELSE e]
EmptyVec == [k \in {} |-> 0]

(***************************************************************************)
(* Tiles.  The planner reads a tile's type and its elevation only.         *)
(***************************************************************************)
Tile(tt, e) == [tile_type |-> tt, elevation |-> e]
\* lib.rs:293  Tile{tile_type: TileType::Lava, content: Content::None, elevation:0}
LavaTile == Tile("Lava", 0)

\* robotics_lib's TileType::properties().cost() for the tile types of the model.
PropsCost(tt) ==
    CASE tt = "Street" -> 0
      [] tt = "Grass"  -> 1
      [] tt = "Lava"   -> 3

\* lib.rs:466-471
get_cost(tile) ==
    IF tile.tile_type \in {"DeepWater", "Lava", "Wall"}
    THEN ImpassableCost
    ELSE PropsCost(tile.tile_type)

\* lib.rs:473-478
is_wakable(tile) == tile.tile_type \notin {"DeepWater", "Lava", "Wall"}

\* The penalty laid on the descent instead of the climb: the reading of
\* lib.rs:481-486 with its two tiles exchanged.
descent_cost_elevation(tile_arrive, tile_start) ==
    IF tile_start.elevation <= tile_arrive.elevation
    THEN 0
    ELSE (tile_start.elevation - tile_arrive.elevation)
            * (tile_start.elevation - tile_arrive.elevation)

\* lib.rs:481-486
get_cost_elevation(tile_arrive, tile_start) ==
    IF tile_arrive.elevation <= tile_start.elevation
    THEN 0
    ELSE (tile_arrive.elevation - tile_start.elevation)
            * (tile_arrive.elevation - tile_start.elevation)


(***************************************************************************)
(* Grid Normalizer: from_vec_to_matrix, lib.rs:244-314.                    *)
(* nodi_conosciuti is a Vec of <<<<x, y>>, tile>>, nodi_interesse a Vec of *)
(* coordinates (already swapped by shortest_path).                         *)
(***************************************************************************)
\* lib.rs:251-283.  The running minima start at i32::MAX and the running
\* maxima at 0; the start is pushed with its components exchanged.
BoundingBox(known, interesse, starting_node) ==
    LET clone == VPush(interesse, <<starting_node[2], starting_node[1]>>)
        xs  == {clone[k][1] : k \in DOMAIN clone}
        ys  == {clone[k][2] : k \in DOMAIN clone}
        kxs == {known[k][1][1] : k \in DOMAIN known}
        kys == {known[k][1][2] : k \in DOMAIN known}
    IN  [i_min_x |-> MinOf({I32Max} \cup xs \cup kxs),
         i_max_x |-> MaxOf({0} \cup xs \cup kxs),
         i_min_y |-> MinOf({I32Max} \cup ys \cup kys),
         i_max_y |-> MaxOf({0} \cup ys \cup kys)]

\* A pre-fill with a walkable tile in place of the impassable one.
GrassMask(box) ==
    Vec(box.i_max_x - box.i_min_x + 1,
        LAMBDA r : Vec(box.i_max_y - box.i_min_y + 1,
                       LAMBDA c : <<Tile("Grass", 0), FALSE>>))

\* lib.rs:285-298: one row per value of i_min_x..=i_max_x, one column per
\* value of i_min_y..=i_max_y, every cell (Lava, false).
LavaMask(box) ==
    Vec(box.i_max_x - box.i_min_x + 1,
        LAMBDA r : Vec(box.i_max_y - box.i_min_y + 1,
                       LAMBDA c : <<LavaTile, FALSE>>))

\* lib.rs:306-308: the cell a known record ((x, y), tile) is written to.
KnownRow(rec, box) == rec[1][2] - box.i_min_y
KnownCol(rec, box) == rec[1][1] - box.i_min_x

\* An index expression m[r][c] of a Vec<Vec<_>> panics outside the vectors.
InMatrix(m, r, c) == r \in DOMAIN m /\ c \in DOMAIN m[r]

\* lib.rs:304-309: the records are written in order; the first record whose
\* cell is outside the vectors panics (index out of bounds).
RECURSIVE WriteKnown(_, _, _, _)
WriteKnown(mask, known, k, box) ==
    IF k >= VLen(known)
    THEN [panic |-> FALSE, mask |-> mask]
    ELSE LET r == KnownRow(known[k], box)
             c == KnownCol(known[k], box)
         IN  IF ~InMatrix(mask, r, c)
             THEN [panic |-> TRUE, mask |-> mask]
             ELSE WriteKnown([mask EXCEPT ![r][c] = <<known[k][2], TRUE>>],
                             known, k + 1, box)

\* The tiles of a mask matrix (the matrix written in step with it).
TilesOf(mask) == [r \in DOMAIN mask |-> [c \in DOMAIN mask[r] |-> mask[r][c][1]]]

(***************************************************************************)
(* Terrain Filler: lib.rs:316-361 and its helpers.                         *)
(***************************************************************************)
\* lib.rs:413-426.  x and y are i32 cast to usize: a negative index is out
\* of every vector.  NoTile stands for Option::None of Option<Tile>.
NoTile == [tile_type |-> "NoTile", elevation |-> 0]
scan_matrix(m, x, y) ==
    IF x \in DOMAIN m
    THEN IF y \notin DOMAIN m[x] THEN NoTile
         ELSE IF ~m[x][y][2] THEN NoTile
         ELSE m[x][y][1]
    ELSE NoTile

\* lib.rs:397-410: the 8 neighbours, in the order a..h.
show_neighbor(m, x, y) ==
    << scan_matrix(m, x - 1, y - 1), scan_matrix(m, x - 1, y),
       scan_matrix(m, x - 1, y + 1), scan_matrix(m, x, y - 1),
       scan_matrix(m, x, y + 1),     scan_matrix(m, x + 1, y - 1),
       scan_matrix(m, x + 1, y),     scan_matrix(m, x + 1, y + 1) >>

\* lib.rs:380-392: the loop over the tuple; state <<max_cost_tile, max_cost>>.
RECURSIVE MaxLoop(_, _, _, _)
MaxLoop(tuple, k, max_cost_tile, max_cost) ==
    IF k > Len(tuple) THEN max_cost_tile
    ELSE IF tuple[k] # NoTile /\ PropsCost(tuple[k].tile_type) > max_cost
         THEN MaxLoop(tuple, k + 1, tuple[k], PropsCost(tuple[k].tile_type))
         ELSE MaxLoop(tuple, k + 1, max_cost_tile, max_cost)

\* lib.rs:365-393
find_max_in_tuple(tuple) ==
    IF \A k \in 1..Len(tuple) : tuple[k] = NoTile
    THEN NoTile
    ELSE MaxLoop(tuple, 1, NoTile, 0)

(***************************************************************************)
(* Graph Builder: change_matrix and get_neighbours, lib.rs:430-539.        *)
(* A graph is a Vec of adjacency lists (sequences of Node).                *)
(***************************************************************************)
\* lib.rs:196-206
Node(index, distance) == [index |-> index, distance |-> distance]

Rows(matrix_tile) == VLen(matrix_tile)
Cols(matrix_tile) == VLen(matrix_tile[0])

\* The weight taken from the tile the edge leaves instead of the one it
\* enters.
SourceWeight(arrive, tile) ==
    IF tile.elevation = 0
    THEN get_cost(tile)
    ELSE get_cost(tile) + get_cost_elevation(tile, arrive)

\* lib.rs:497-502 (and the three copies of it): the weight of the edge into
\* the neighbour tile `arrive` from `tile`.
EdgeWeight(arrive, tile) ==
    IF arrive.elevation = 0
    THEN get_cost(arrive)
    ELSE get_cost(arrive) + get_cost_elevation(arrive, tile)

\* Neighbours by label alone: the cell right of (x, y) is taken to be the one
\* labelled value + 1, which for the last cell of a row is the first cell of
\* the next row.
get_neighbours_by_label(matrix_tile, x, y, value, tile) ==
    LET rows == Rows(matrix_tile)
        cols == Cols(matrix_tile)
        nx   == (value + 1) \div cols
        ny   == (value + 1) % cols
        up    == IF (x - 1) >= 0 /\ (x - 1) < rows /\ y < cols
                    /\ is_wakable(matrix_tile[x - 1][y])
                 THEN <<Node(value - cols, EdgeWeight(matrix_tile[x - 1][y], tile))>>
                 ELSE <<>>
        right == IF value + 1 < rows * cols /\ is_wakable(matrix_tile[nx][ny])
                 THEN <<Node(value + 1, EdgeWeight(matrix_tile[nx][ny], tile))>>
                 ELSE <<>>
        down  == IF (x + 1) < rows /\ y < cols
                    /\ is_wakable(matrix_tile[x + 1][y])
                 THEN <<Node(value + cols, EdgeWeight(matrix_tile[x + 1][y], tile))>>
                 ELSE <<>>
        left  == IF x < rows /\ (y - 1) >= 0 /\ (y - 1) < cols
                    /\ is_wakable(matrix_tile[x][y - 1])
                 THEN <<Node(value - 1, EdgeWeight(matrix_tile[x][y - 1], tile))>>
                 ELSE <<>>
    IN  up \o right \o down \o left

\* lib.rs:490-539: the neighbours above, right of, below and left of (x, y),
\* in this order, each only when inside the matrix and walkable.
get_neighbours(matrix_tile, x, y, value, tile) ==
    LET rows == Rows(matrix_tile)
        cols == Cols(matrix_tile)
        up    == IF (x - 1) >= 0 /\ (x - 1) < rows /\ y < cols
                    /\ is_wakable(matrix_tile[x - 1][y])
                 THEN <<Node(value - cols, EdgeWeight(matrix_tile[x - 1][y], tile))>>
                 ELSE <<>>
        right == IF x < rows /\ (y + 1) < cols
                    /\ is_wakable(matrix_tile[x][y + 1])
                 THEN <<Node(value + 1, EdgeWeight(matrix_tile[x][y + 1], tile))>>
                 ELSE <<>>
        down  == IF (x + 1) < rows /\ y < cols
                    /\ is_wakable(matrix_tile[x + 1][y])
                 THEN <<Node(value + cols, EdgeWeight(matrix_tile[x + 1][y], tile))>>
                 ELSE <<>>
        left  == IF x < rows /\ (y - 1) >= 0 /\ (y - 1) < cols
                    /\ is_wakable(matrix_tile[x][y - 1])
                 THEN <<Node(value - 1, EdgeWeight(matrix_tile[x][y - 1], tile))>>
                 ELSE <<>>
    IN  up \o right \o down \o left

\* lib.rs:447-452: the targets pushed for the cell (x, y) labelled label_node,
\* one per entry of nodi_dinteresse that names the cell.
RECURSIVE TargetsOfCell(_, _, _, _, _)
TargetsOfCell(nodi_dinteresse, k, x, y, label_node) ==
    IF k >= VLen(nodi_dinteresse) THEN <<>>
    ELSE (IF x = nodi_dinteresse[k][1] /\ y = nodi_dinteresse[k][2]
          THEN <<label_node>> ELSE <<>>)
         \o TargetsOfCell(nodi_dinteresse, k + 1, x, y, label_node)

\* lib.rs:440-462: target_nodes, cell after cell in row-major order.
RECURSIVE TargetNodes(_, _, _)
TargetNodes(matrix_tile, nodi_dinteresse, label_node) ==
    IF label_node >= Rows(matrix_tile) * Cols(matrix_tile) THEN <<>>
    ELSE TargetsOfCell(nodi_dinteresse, 0, label_node \div Cols(matrix_tile),
                       label_node % Cols(matrix_tile), label_node)
         \o TargetNodes(matrix_tile, nodi_dinteresse, label_node + 1)

\* lib.rs:430-464.  label_node counts the cells in row-major order, so the
\* cell (x, y) has label x * cols + y; starting_node_index stays 0 when no
\* cell is the start.
change_matrix(matrix_tile, nodi_dinteresse, startin_node) ==
    LET rows == Rows(matrix_tile)
        cols == Cols(matrix_tile)
        matrix_node ==
            [label \in 0..(rows * cols - 1) |->
                LET x == label \div cols
                    y == label % cols
                IN  IF is_wakable(matrix_tile[x][y])
                    THEN get_neighbours(matrix_tile, x, y, label, matrix_tile[x][y])
                    ELSE <<>>]
        starting_node_index ==
            IF startin_node[1] \in 0..(rows - 1) /\ startin_node[2] \in 0..(cols - 1)
            THEN startin_node[1] * cols + startin_node[2]
            ELSE 0
    IN  [matrix_node |-> matrix_node,
         target_nodes |-> TargetNodes(matrix_tile, nodi_dinteresse, 0),
         starting_node_index |-> starting_node_index]

\* lib.rs:810-821: index -> (row, column), row-major.
get_coordinates(matrix) ==
    [index \in 0..(Rows(matrix) * Cols(matrix) - 1) |->
        <<index \div Cols(matrix), index % Cols(matrix)>>]

(***************************************************************************)
(* std::collections::BinaryHeap<Node>, as dijkstra and                     *)
(* find_connected_targets use it (lib.rs:582-598, 772-794).  The heap is   *)
(* the vector `data`, here a sequence: position p of the code is data[p+1].*)
(***************************************************************************)
\* The order of the distances themselves, which makes the heap a max-heap.
DistanceLe(a, b) == a.distance <= b.distance

\* lib.rs:215-225: a <= b under Node's Ord, which compares other.distance
\* with self.distance: the smaller distance is the greater Node.
NodeLe(a, b) == b.distance <= a.distance

\* BinaryHeap::sift_up(start, pos) with the hole holding `e`.
RECURSIVE SiftUp(_, _, _, _)
SiftUp(data, start, pos, e) ==
    IF pos > start
    THEN LET parent == (pos - 1) \div 2
         IN  IF NodeLe(e, data[parent + 1])
             THEN [data EXCEPT ![pos + 1] = e]
             ELSE SiftUp([data EXCEPT ![pos + 1] = data[parent + 1]], start, parent, e)
    ELSE [data EXCEPT ![pos + 1] = e]

\* BinaryHeap::push
HeapPush(data, item) == SiftUp(Append(data, item), 0, Len(data), item)

\* BinaryHeap::sift_down_to_bottom(0) with the hole holding `e`: the hole
\* moves to the greater child down to a leaf, then the element sifts up.
RECURSIVE SiftDownToBottom(_, _, _, _)
SiftDownToBottom(data, pos, child, e) ==
    LET end == Len(data)
    IN  IF end >= 2 /\ child <= end - 2
        THEN LET c == IF NodeLe(data[child + 1], data[child + 2])
                      THEN child + 1 ELSE child
             IN  SiftDownToBottom([data EXCEPT ![pos + 1] = data[c + 1]], c, 2 * c + 1, e)
        ELSE IF child = end - 1
             THEN SiftUp([data EXCEPT ![pos + 1] = data[child + 1]], 0, child, e)
             ELSE SiftUp(data, 0, pos, e)

\* BinaryHeap::pop on a non-empty heap: the item popped and the heap left.
HeapPop(data) ==
    LET last == data[Len(data)]
        rest == SubSeq(data, 1, Len(data) - 1)
    IN  IF rest = <<>>
        THEN [item |-> last, heap |-> <<>>]
        ELSE [item |-> rest[1], heap |-> SiftDownToBottom(rest, 0, 1, last)]

(***************************************************************************)
(* Shortest-Path Engine: dijkstra, lib.rs:576-604.                         *)
(* The loop state is the record of the function's locals, and `expanded`,  *)
(* the log of the vertices whose adjacency list the loop has scanned.      *)
(***************************************************************************)
\* lib.rs:577-583
DijkstraInit(graph, start) ==
    [distance    |-> [v \in DOMAIN graph |-> IF v = start THEN 0 ELSE None],
     predecessor |-> [v \in DOMAIN graph |-> None],
     visited     |-> [v \in DOMAIN graph |-> FALSE],
     heap        |-> HeapPush(<<>>, Node(start, 0)),
     expanded    |-> <<>>]

\* lib.rs:591-600: the loop over graph[index], from its k-th neighbour on.
RECURSIVE Relax(_, _, _, _, _)
Relax(adj, k, index, dist, st) ==
    IF k > Len(adj) THEN st
    ELSE LET neighbor == adj[k]
             new_distance == dist + neighbor.distance
             neighbor_distance ==
                 IF st.distance[neighbor.index] = None THEN INF
                 ELSE st.distance[neighbor.index]
         IN  IF new_distance < neighbor_distance
             THEN Relax(adj, k + 1, index, dist,
                        [st EXCEPT !.distance[neighbor.index] = new_distance,
                                   !.predecessor[neighbor.index] = index,
                                   !.heap = HeapPush(@, Node(neighbor.index, new_distance))])
             ELSE Relax(adj, k + 1, index, dist, st)

\* lib.rs:585-601: one iteration of `while let Some(..) = heap.pop()`.
DijkstraStep(graph, st) ==
    LET popped == HeapPop(st.heap)
        index  == popped.item.index
        dist   == popped.item.distance
    IN  IF st.visited[index]
        THEN [st EXCEPT !.heap = popped.heap]
        ELSE Relax(graph[index], 1, index, dist,
                   [st EXCEPT !.heap = popped.heap,
                              !.visited[index] = TRUE,
                              !.expanded = Append(@, index)])

RECURSIVE DijkstraLoop(_, _)
DijkstraLoop(graph, st) ==
    IF st.heap = <<>> THEN st ELSE DijkstraLoop(graph, DijkstraStep(graph, st))

\* lib.rs:576-604: the locals when the heap is empty; the function returns
\* (distance, predecessor).
dijkstra(graph, start) == DijkstraLoop(graph, DijkstraInit(graph, start))

\* lib.rs:611-614: the vertices pushed while walking the predecessors, the
\* target first.
RECURSIVE WalkBack(_, _)
WalkBack(predecessor, current) ==
    IF predecessor[current] # None
    THEN <<current>> \o WalkBack(predecessor, predecessor[current])
    ELSE <<current>>

Reverse(s) == [k \in 1..Len(s) |-> s[Len(s) + 1 - k]]

\* Option::None of Option<Vec<usize>>: a path returned as Some is not empty.
NoPath == <<>>

\* lib.rs:607-629
reconstruct_shortest_path(predecessor, target) ==
    LET path == Reverse(WalkBack(predecessor, target))
    IN  IF Len(path) = 0 THEN NoPath
        ELSE IF path = <<target>> THEN NoPath
        ELSE path

\* lib.rs:644-666: one PathResult per entry of target_nodes, in its order.
find_shortest_paths(graph, start, target_nodes) ==
    LET d == dijkstra(graph, start)
    IN  [k \in 1..Len(target_nodes) |->
            [path        |-> reconstruct_shortest_path(d.predecessor, target_nodes[k]),
             target_node |-> target_nodes[k],
             total_cost  |-> IF d.distance[target_nodes[k]] = None THEN 0
                             ELSE d.distance[target_nodes[k]]]]

\* The selection of the last candidate whatever its cost.
LastOf(paths) == paths[Len(paths)]

\* lib.rs:694  paths.iter().min_by_key(|path| path.total_cost): of several
\* equally minimum elements the first is returned.  paths is not empty.
MinByKey(paths) ==
    LET k == CHOOSE i \in 1..Len(paths) :
                /\ \A j \in 1..Len(paths) : paths[i].total_cost <= paths[j].total_cost
                /\ \A j \in 1..(i - 1) : paths[j].total_cost > paths[i].total_cost
    IN  paths[k]

(***************************************************************************)
(* Path-to-Direction Translator: lib.rs:722-756.                           *)
(***************************************************************************)
\* The translation with the two vertical directions exchanged.
DirectionOfFlipped(current_coords, next_coords) ==
    LET delta == <<next_coords[1] - current_coords[1],
                   next_coords[2] - current_coords[2]>>
    IN  CASE delta = <<-1, 0>> -> "Down"
          [] delta = <<1, 0>>  -> "Up"
          [] delta = <<0, -1>> -> "Left"
          [] delta = <<0, 1>>  -> "Right"
          [] OTHER             -> "Err"

\* lib.rs:743-749: the direction of one step, "Err" for any other delta.
DirectionOf(current_coords, next_coords) ==
    LET delta == <<next_coords[1] - current_coords[1],
                   next_coords[2] - current_coords[2]>>
    IN  CASE delta = <<-1, 0>> -> "Up"
          [] delta = <<1, 0>>  -> "Down"
          [] delta = <<0, -1>> -> "Left"
          [] delta = <<0, 1>>  -> "Right"
          [] OTHER             -> "Err"

\* lib.rs:722-756: ok with the directions, or the error of a missing
\* coordinate or of a delta that is no unit move.
path_to_directions(coordinates, path) ==
    LET steps == [i \in 1..(Len(path) - 1) |->
                    IF path[i] \in DOMAIN coordinates /\ path[i + 1] \in DOMAIN coordinates
                    THEN DirectionOf(coordinates[path[i]], coordinates[path[i + 1]])
                    ELSE "Err"]
    IN  IF \E i \in 1..(Len(path) - 1) : steps[i] = "Err"
        THEN [ok |-> FALSE, directions |-> <<>>]
        ELSE [ok |-> TRUE, directions |-> steps]

(***************************************************************************)
(* Reachability Filter: find_connected_targets, lib.rs:770-798.            *)
(***************************************************************************)
\* lib.rs:788-795: the pushes for the neighbours not yet visited.
RECURSIVE PushUnvisited(_, _, _, _, _)
PushUnvisited(adj, k, distance, visited, heap) ==
    IF k > Len(adj) THEN heap
    ELSE PushUnvisited(adj, k + 1, distance, visited,
                       IF ~visited[adj[k].index]
                       THEN HeapPush(heap, Node(adj[k].index, distance + adj[k].index))
                       ELSE heap)

\* lib.rs:777-796: the loop; state <<connected_targets, heap, visited>>.
RECURSIVE ConnectedLoop(_, _, _, _, _)
ConnectedLoop(graph, targets, connected_targets, heap, visited) ==
    IF heap = <<>> THEN connected_targets
    ELSE LET popped == HeapPop(heap)
             index  == popped.item.index
         IN  IF visited[index]
             THEN ConnectedLoop(graph, targets, connected_targets, popped.heap, visited)
             ELSE LET visited2 == [visited EXCEPT ![index] = TRUE]
                  IN  ConnectedLoop(graph, targets,
                        IF index \in Range(targets)
                        THEN Append(connected_targets, index) ELSE connected_targets,
                        PushUnvisited(graph[index], 1, popped.item.distance,
                                      visited2, popped.heap),
                        visited2)

\* A filter that stops at the first target it meets.
first_connected_target(graph, start, targets) ==
    LET connected == ConnectedLoop(graph, targets, <<>>, HeapPush(<<>>, Node(start, 0)),
                                   [v \in DOMAIN graph |-> FALSE])
    IN  IF Len(connected) > 1 THEN SubSeq(connected, 1, 1) ELSE connected

\* lib.rs:770-798
find_connected_targets(graph, start, targets) ==
    ConnectedLoop(graph, targets, <<>>, HeapPush(<<>>, Node(start, 0)),
                  [v \in DOMAIN graph |-> FALSE])

(***************************************************************************)
(* The discovery capability (robotics_lib's discover_tiles, called at      *)
(* lib.rs:337): the tile of the world at the coordinate a request names.   *)
(* A world is one of a few terrains.                                       *)
(***************************************************************************)
Worlds == {"meadow", "road", "ridge"}
WorldTile(w, i, j) ==
    CASE w = "meadow" -> Tile("Grass", 0)
      [] w = "road"   -> Tile("Street", 0)
      [] w = "ridge"  -> IF (i + j) % 2 = 1 THEN Tile("Lava", 0)
                         ELSE Tile("Grass", IF i + j > MaxElev THEN MaxElev ELSE i + j)

(***************************************************************************)
(* The state of one planning call.                                         *)
(***************************************************************************)
VARIABLES
    pc,               \* where the call is
    nodi_conosciuti,  \* the caller's known-cell records
    nodi_interesse,   \* the caller's target coordinates
    starting_node,    \* the caller's start coordinate
    discover,         \* the caller's discovery flag
    world,            \* the world the discovery capability reads
    box,              \* i_min_x, i_max_x, i_min_y, i_max_y of from_vec_to_matrix
    mask_matrix,      \* Vec<Vec<(Tile, bool)>> of from_vec_to_matrix
    new_matrix,       \* the rows the filler has pushed, the last one in progress
    fi, fj,           \* the cell (i, j) the filler processes next
    requests,         \* the coordinates of the discovery requests issued so far
    matrix,           \* the matrix from_vec_to_matrix returns
    matrix_node,      \* the graph of change_matrix
    target_nodes,     \* target_nodes of shortest_path, then of build_path
    start,            \* the start vertex, then `start` of build_path
    best,             \* `best` of the last iteration of build_path
    final_path,       \* final_path of build_path
    results           \* the value shortest_path returns

vars == <<pc, nodi_conosciuti, nodi_interesse, starting_node, discover, world,
          box, mask_matrix, new_matrix, fi, fj, requests, matrix, matrix_node,
          target_nodes, start, best, final_path, results>>

inputs == <<nodi_conosciuti, nodi_interesse, starting_node, discover, world>>
fillVars == <<mask_matrix, new_matrix, fi, fj, requests>>
routeVars == <<matrix_node, target_nodes, start, best, final_path, results>>

\* The locals before their statement has run.
NoBox == [i_min_x |-> I32Max, i_max_x |-> 0, i_min_y |-> I32Max, i_max_y |-> 0]
NoBest == [path |-> NoPath, target_node |-> None, total_cost |-> 0]

Panics == {"panic_no_target", "panic_index", "panic_discovery"}

(***************************************************************************)
(* The inputs.                                                             *)
(***************************************************************************)
Coords == (0 - NegCoord)..MaxCoord
Points == Coords \X Coords
\* Tiles of the known-cell records of the pipeline inputs.
KnownTiles == {Tile("Grass", 0), Tile("Street", 0), Tile("Lava", 0)}
\* Tiles of the fully known maps.
Terrain == {Tile("Lava", 0), Tile("Street", 0)}
              \cup {Tile("Grass", e) : e \in 0..MaxElev}

VecsUpTo(n, S) == UNION {[0..(k - 1) -> S] : k \in 0..n}

Unstarted ==
    /\ pc = "call"
    /\ box = NoBox
    /\ mask_matrix = EmptyVec /\ new_matrix = EmptyVec
    /\ fi = 0 /\ fj = 0
    /\ requests = <<>>
    /\ matrix = EmptyVec /\ matrix_node = EmptyVec
    /\ target_nodes = <<>> /\ start = 0
    /\ best = NoBest
    /\ final_path = <<>> /\ results = <<>>

\* Any call within the bounds: few known cells anywhere, discovery on or off.
Init ==
    /\ nodi_conosciuti \in VecsUpTo(MaxKnown, Points \X KnownTiles)
    /\ nodi_interesse \in VecsUpTo(MaxTargets, Points)
    /\ starting_node \in Points
    /\ discover \in BOOLEAN
    /\ world \in (IF discover THEN Worlds ELSE {"meadow"})
    /\ Unstarted

\* The calls on a fully known n x n map at the origin, discovery off: one
\* record per coordinate of (0..n-1) x (0..n-1), targets and start inside.
GraphInit ==
    /\ \E n \in 1..Dim :
        /\ \E tiles \in [0..(n * n - 1) -> Terrain] :
              nodi_conosciuti = Vec(n * n, LAMBDA k : <<<<k % n, k \div n>>, tiles[k]>>)
        /\ \E g \in 1..MaxGoals : nodi_interesse \in [0..(g - 1) -> (0..(n - 1)) \X (0..(n - 1))]
        /\ starting_node \in (0..(n - 1)) \X (0..(n - 1))
    /\ discover = FALSE
    /\ world = "meadow"
    /\ Unstarted

\* The calls with non-negative coordinates up to MaxShift, discovery off:
\* the bounding box starts wherever the smallest coordinates are.
ShiftedPoints == (0..MaxShift) \X (0..MaxShift)
ShiftedInit ==
    /\ nodi_conosciuti \in VecsUpTo(MaxKnown,
                                    ShiftedPoints \X {Tile("Grass", 0), Tile("Street", 0)})
    /\ nodi_interesse \in VecsUpTo(MaxTargets, ShiftedPoints)
    /\ starting_node \in ShiftedPoints
    /\ discover = FALSE
    /\ world = "meadow"
    /\ Unstarted

(***************************************************************************)
(* shortest_path, lib.rs:159-167, and from_vec_to_matrix up to its first   *)
(* return, lib.rs:244-314.                                                 *)
(***************************************************************************)
\* lib.rs:161-164
Swapped(interesse) == [k \in DOMAIN interesse |-> <<interesse[k][2], interesse[k][1]>>]

\* from_vec_to_matrix without the check of lib.rs:247-249.
NormalizeUnchecked ==
    /\ pc = "call"
    /\ LET b == BoundingBox(nodi_conosciuti, Swapped(nodi_interesse), starting_node)
           w == WriteKnown(LavaMask(b), nodi_conosciuti, 0, b)
       IN  /\ box' = b
           /\ mask_matrix' = w.mask
           /\ UNCHANGED <<new_matrix, fi, fj>>
           /\ IF w.panic
              THEN pc' = "panic_index" /\ UNCHANGED matrix
              ELSE IF ~discover
                   THEN pc' = "matrix" /\ matrix' = TilesOf(w.mask)
                   ELSE pc' = "fill" /\ UNCHANGED matrix
    /\ UNCHANGED <<inputs, requests, routeVars>>

Normalize ==
    /\ pc = "call"
    /\ IF VLen(nodi_interesse) = 0
       THEN \* lib.rs:247-249
            /\ pc' = "panic_no_target"
            /\ UNCHANGED <<box, mask_matrix, matrix, new_matrix, fi, fj>>
       ELSE LET b == BoundingBox(nodi_conosciuti, Swapped(nodi_interesse), starting_node)
                w == WriteKnown(LavaMask(b), nodi_conosciuti, 0, b)
            IN  /\ box' = b
                /\ mask_matrix' = w.mask
                /\ UNCHANGED <<new_matrix, fi, fj>>
                /\ IF w.panic
                   THEN pc' = "panic_index" /\ UNCHANGED matrix
                   ELSE IF ~discover
                        THEN \* lib.rs:312-314
                             pc' = "matrix" /\ matrix' = TilesOf(w.mask)
                        ELSE pc' = "fill" /\ UNCHANGED matrix
    /\ UNCHANGED <<inputs, requests, routeVars>>

(***************************************************************************)
(* The filler's loop, lib.rs:321-361, one cell (fi, fj) per step.          *)
(***************************************************************************)
\* new_row.push(val) for the cell of row i; a row starts with its cell 0.
PushCell(nm, i, val) ==
    IF i \in DOMAIN nm
    THEN [nm EXCEPT ![i] = VPush(@, val)]
    ELSE VPush(nm, VPush(EmptyVec, val))

\* lib.rs:331-332
MaxVal(i, j) == find_max_in_tuple(show_neighbor(mask_matrix, i, j))

\* The loop moves on to the next cell; after the last one lib.rs:352-361
\* copies the tiles of new_matrix into the matrix returned.
NextCell(nm) ==
    LET row_len == VLen(mask_matrix[fi])
        matrix_len == VLen(mask_matrix)
    IN  IF fj + 1 < row_len
        THEN fi' = fi /\ fj' = fj + 1 /\ pc' = "fill" /\ UNCHANGED matrix
        ELSE IF fi + 1 < matrix_len
             THEN fi' = fi + 1 /\ fj' = 0 /\ pc' = "fill" /\ UNCHANGED matrix
             ELSE fi' = fi /\ fj' = fj /\ pc' = "matrix" /\ matrix' = TilesOf(nm)

\* lib.rs:344-346: a known cell is copied.
FillKnown ==
    /\ pc = "fill"
    /\ mask_matrix[fi][fj][2]
    /\ new_matrix' = PushCell(new_matrix, fi, <<mask_matrix[fi][fj][1], TRUE>>)
    /\ NextCell(new_matrix')
    /\ UNCHANGED <<inputs, box, mask_matrix, requests, routeVars>>

\* lib.rs:341-343: the estimate from the known neighbours, marked not known.
FillEstimate ==
    /\ pc = "fill"
    /\ ~mask_matrix[fi][fj][2]
    /\ MaxVal(fi, fj) # NoTile
    /\ new_matrix' = PushCell(new_matrix, fi, <<MaxVal(fi, fj), FALSE>>)
    /\ NextCell(new_matrix')
    /\ UNCHANGED <<inputs, box, mask_matrix, requests, routeVars>>

\* lib.rs:334-339: a discovery request for [(i, j)] that is answered.
FillDiscover ==
    /\ pc = "fill"
    /\ ~mask_matrix[fi][fj][2]
    /\ MaxVal(fi, fj) = NoTile
    /\ requests' = Append(requests, <<fi, fj>>)
    /\ LET new_val == <<WorldTile(world, fi, fj), TRUE>>
       IN  /\ new_matrix' = PushCell(new_matrix, fi, new_val)
           /\ mask_matrix' = [mask_matrix EXCEPT ![fi][fj] = new_val]
    /\ NextCell(new_matrix')
    /\ UNCHANGED <<inputs, box, routeVars>>

\* A filler that takes a failed request for an impassable cell and goes on.
DiscoveryFailureSwallowed ==
    /\ pc = "fill"
    /\ ~mask_matrix[fi][fj][2]
    /\ MaxVal(fi, fj) = NoTile
    /\ requests' = Append(requests, <<fi, fj>>)
    /\ new_matrix' = PushCell(new_matrix, fi, <<LavaTile, FALSE>>)
    /\ NextCell(new_matrix')
    /\ UNCHANGED <<inputs, box, mask_matrix, routeVars>>

\* lib.rs:337: the request fails (an Err, or no tile for the cell) and one
\* of the unwraps panics.
DiscoveryFails ==
    /\ pc = "fill"
    /\ ~mask_matrix[fi][fj][2]
    /\ MaxVal(fi, fj) = NoTile
    /\ requests' = Append(requests, <<fi, fj>>)
    /\ pc' = "panic_discovery"
    /\ UNCHANGED <<inputs, box, mask_matrix, new_matrix, fi, fj, matrix, routeVars>>

(***************************************************************************)
(* shortest_path after from_vec_to_matrix, lib.rs:168-189.                 *)
(***************************************************************************)
\* lib.rs:169-172: the swapped targets less the offsets.
InteresseCorrected ==
    [k \in DOMAIN nodi_interesse |->
        <<nodi_interesse[k][2] - box.i_min_x, nodi_interesse[k][1] - box.i_min_y>>]

\* lib.rs:165, 175: corrected_starting_node.
StartCorrected == <<starting_node[2] - box.i_min_x, starting_node[1] - box.i_min_y>>

\* lib.rs:174-176
ChangeMatrix ==
    /\ pc = "matrix"
    /\ LET cm == change_matrix(matrix, InteresseCorrected, StartCorrected)
       IN  /\ matrix_node' = cm.matrix_node
           /\ target_nodes' = cm.target_nodes
           /\ start' = cm.starting_node_index
    /\ pc' = "graph"
    /\ UNCHANGED <<inputs, box, fillVars, matrix, best, final_path, results>>

\* lib.rs:178
FindConnectedTargets ==
    /\ pc = "graph"
    /\ target_nodes' = find_connected_targets(matrix_node, start, target_nodes)
    /\ pc' = "route"
    /\ UNCHANGED <<inputs, box, fillVars, matrix, matrix_node, start, best,
                   final_path, results>>

\* target_nodes.retain(|&x| x != target_node), lib.rs:699
Retain(nodes, target_node) == SelectSeq(nodes, LAMBDA x : x # target_node)

\* lib.rs:692-694: the candidate that one iteration of build_path selects.
Best(graph, from, nodes) == MinByKey(find_shortest_paths(graph, from, nodes))

\* lib.rs:691-702: one iteration of the loop of build_path; an error of
\* path_to_directions returns from build_path, and shortest_path returns
\* vec![vec![]] (lib.rs:180-186).
BuildPathIteration ==
    /\ pc = "route"
    /\ target_nodes # <<>>
    /\ best' = Best(matrix_node, start, target_nodes)
    /\ IF best'.path # NoPath
       THEN LET directions == path_to_directions(get_coordinates(matrix), best'.path)
            IN  /\ start' = best'.path[Len(best'.path)]
                /\ IF directions.ok
                   THEN /\ final_path' = Append(final_path, directions.directions)
                        /\ target_nodes' = Retain(target_nodes, best'.target_node)
                        /\ pc' = "route"
                        /\ UNCHANGED results
                   ELSE /\ results' = << <<>> >>
                        /\ pc' = "done"
                        /\ UNCHANGED <<final_path, target_nodes>>
       ELSE UNCHANGED <<pc, start, final_path, target_nodes, results>>
    /\ UNCHANGED <<inputs, box, fillVars, matrix, matrix_node>>

\* lib.rs:704, 180-188: the loop ends and shortest_path returns the paths.
BuildPathReturns ==
    /\ pc = "route"
    /\ target_nodes = <<>>
    /\ results' = final_path
    /\ pc' = "done"
    /\ UNCHANGED <<inputs, box, fillVars, matrix, matrix_node, target_nodes,
                   start, best, final_path>>

Next ==
    \/ Normalize
    \/ FillKnown
    \/ FillEstimate
    \/ FillDiscover
    \/ DiscoveryFails
    \/ ChangeMatrix
    \/ FindConnectedTargets
    \/ BuildPathIteration
    \/ BuildPathReturns

Spec == Init /\ [][Next]_vars

\* With discovery off the filler never runs.
GraphNext ==
    \/ Normalize
    \/ ChangeMatrix
    \/ FindConnectedTargets
    \/ BuildPathIteration
    \/ BuildPathReturns

GraphSpec == GraphInit /\ [][GraphNext]_vars

ShiftedSpec == ShiftedInit /\ [][GraphNext]_vars

(***************************************************************************)
(* Definitions the properties are stated with.  None of them uses the      *)
(* planner's own search.                                                   *)
(***************************************************************************)
Returned == pc = "done"
GraphBuilt == pc \in {"graph", "route", "done"}
MatrixReturned == pc \in {"matrix", "graph", "route", "done"}

CellsOf(m) == {<<r, c>> : r \in DOMAIN m, c \in DOMAIN m[0]}
\* The vertex of a cell and the cell of a vertex, row-major.
VertexOf(m, cell) == cell[1] * Cols(m) + cell[2]
CellOf(m, v) == <<v \div Cols(m), v % Cols(m)>>
Adjacent(a, b) ==
    \/ a[1] = b[1] /\ (a[2] - b[2] = 1 \/ b[2] - a[2] = 1)
    \/ a[2] = b[2] /\ (a[1] - b[1] = 1 \/ b[1] - a[1] = 1)
Walkable(m, cell) == m[cell[1]][cell[2]].tile_type \notin {"DeepWater", "Lava", "Wall"}

\* One unit move: Up is towards the smaller row, Left towards the smaller
\* column.
Move(cell, direction) ==
    CASE direction = "Up"    -> <<cell[1] - 1, cell[2]>>
      [] direction = "Down"  -> <<cell[1] + 1, cell[2]>>
      [] direction = "Left"  -> <<cell[1], cell[2] - 1>>
      [] direction = "Right" -> <<cell[1], cell[2] + 1>>

\* The cells a segment steps onto, move after move, from `cell`.
RECURSIVE Trace(_, _)
Trace(cell, segment) ==
    IF segment = <<>> THEN <<>>
    ELSE <<Move(cell, Head(segment))>> \o Trace(Move(cell, Head(segment)), Tail(segment))

\* Where a segment replayed from `cell` ends.
EndOf(cell, segment) ==
    IF segment = <<>> THEN cell ELSE Trace(cell, segment)[Len(segment)]

\* The cells where the segments of `segments` end, replayed one after the
\* other from `cell`.
RECURSIVE EndCells(_, _)
EndCells(cell, segments) ==
    IF segments = <<>> THEN <<>>
    ELSE <<EndOf(cell, Head(segments))>>
            \o EndCells(EndOf(cell, Head(segments)), Tail(segments))

\* All the cells the segments step onto, replayed one after the other.
RECURSIVE SteppedCells(_, _)
SteppedCells(cell, segments) ==
    IF segments = <<>> THEN {}
    ELSE Range(Trace(cell, Head(segments)))
            \cup SteppedCells(EndOf(cell, Head(segments)), Tail(segments))

\* The cells connected to `from` through walkable 4-adjacent cells.
RECURSIVE Flood(_, _)
Flood(m, S) ==
    LET T == S \cup {n \in CellsOf(m) : Walkable(m, n) /\ \E a \in S : Adjacent(a, n)}
    IN  IF T = S THEN S ELSE Flood(m, T)
ConnectedCells(m, from) == IF Walkable(m, from) THEN Flood(m, {from}) ELSE {from}

\* The edges of a graph as <<source, destination, weight>>.
EdgeSet(graph) ==
    UNION {{<<u, graph[u][k].index, graph[u][k].distance>> : k \in 1..Len(graph[u])} :
            u \in DOMAIN graph}

\* The minimum total weight of a path from s to every vertex (INF: there is
\* no path), by relaxing every edge as often as there are vertices.
RECURSIVE RelaxRounds(_, _, _)
RelaxRounds(E, d, n) ==
    IF n = 0 THEN d
    ELSE RelaxRounds(E,
            [v \in DOMAIN d |->
                MinOf({d[v]} \cup {d[e[1]] + e[3] : e \in {x \in E : x[2] = v /\ d[x[1]] < INF}})],
            n - 1)
MinCosts(graph, s) ==
    RelaxRounds(EdgeSet(graph), [v \in DOMAIN graph |-> IF v = s THEN 0 ELSE INF],
                VLen(graph))

\* p is a path of the graph, and its total weight.
IsPathOf(graph, p) ==
    /\ Len(p) >= 1
    /\ \A i \in 1..(Len(p) - 1) : \E e \in EdgeSet(graph) : e[1] = p[i] /\ e[2] = p[i + 1]
RECURSIVE PathCost(_, _)
PathCost(graph, p) ==
    IF Len(p) <= 1 THEN 0
    ELSE (CHOOSE w \in {e[3] : e \in {x \in EdgeSet(graph) : x[1] = p[1] /\ x[2] = p[2]}} : TRUE)
         + PathCost(graph, Tail(p))

\* The step of build_path that emits a segment.
Emits == Len(final_path') = Len(final_path) + 1
Emitted == final_path'[Len(final_path')]

(***************************************************************************)
(* C1.  The router loop terminates: from every start vertex and target     *)
(* list the reachability filter returns, build_path reaches the state in   *)
(* which target_nodes is empty and returns, so that a planning call always *)
(* runs to completion or fails.  The loop is sequential and deterministic, *)
(* and only an iteration whose candidate has a path changes start,         *)
(* target_nodes or final_path: the loop terminates exactly when at every   *)
(* loop head with targets left the candidate selected has a path (an       *)
(* iteration without one is repeated forever).                             *)
(***************************************************************************)
BuildPathTerminates ==
    (pc = "route" /\ target_nodes # <<>>)
        => Best(matrix_node, start, target_nodes).path # NoPath

(***************************************************************************)
(* C2.  Every segment build_path emits, replayed move by move from the     *)
(* cell of the vertex the iteration started from (the planner's start cell *)
(* for the first segment, the vertex of the previous segment's target      *)
(* afterwards), stays inside the matrix, steps only onto walkable cells    *)
(* and ends on the cell of the target the iteration selected, which is a   *)
(* requested target; shortest_path returns exactly these segments.         *)
(***************************************************************************)
SegmentReplays ==
    LET from  == CellOf(matrix, start)
        cells == Trace(from, Emitted)
    IN  /\ final_path = <<>> => from = StartCorrected
        /\ \A k \in 1..Len(cells) :
              cells[k] \in CellsOf(matrix) /\ Walkable(matrix, cells[k])
        /\ best'.target_node \in Range(target_nodes)
        /\ EndOf(from, Emitted) = CellOf(matrix, best'.target_node)
        /\ CellOf(matrix, best'.target_node) \in Range(InteresseCorrected)
        /\ start' = best'.target_node

SegmentsReplayToTheirTargets ==
    [][ /\ Emits => SegmentReplays
        /\ (pc' = "done" /\ pc # "done") => results' = final_path ]_vars

\* A returned output of two segments, the second of at least two moves.
TwoSegmentsReturned ==
    /\ Returned
    /\ Len(results) = 2
    /\ Len(results[1]) >= 1
    /\ Len(results[2]) >= 2

(***************************************************************************)
(* C3.  When shortest_path returns, the cells its segments end on are      *)
(* exactly the requested target cells connected to the start cell through  *)
(* walkable 4-adjacent cells, one segment per such cell: no segment for a  *)
(* target that is not connected, and an unconnected target does not keep   *)
(* the connected ones from being served.                                   *)
(***************************************************************************)
ConnectedTargetCells ==
    Range(InteresseCorrected) \cap ConnectedCells(matrix, StartCorrected)

ReachableTargetsServed ==
    Returned =>
        /\ Range(EndCells(StartCorrected, results)) = ConnectedTargetCells
        /\ Len(results) = Cardinality(ConnectedTargetCells)

\* A returned output that serves one target and leaves out another, which
\* is not connected to the start.
UnreachableTargetOmitted ==
    /\ Returned
    /\ Len(results) = 1
    /\ Len(results[1]) >= 2
    /\ \E k \in DOMAIN nodi_interesse :
          InteresseCorrected[k] \notin ConnectedCells(matrix, StartCorrected)

(***************************************************************************)
(* C4.  In every iteration of the router loop that emits a segment, the    *)
(* target selected is one of target_nodes whose minimum path cost from the *)
(* current vertex is the least among target_nodes, the path selected is a  *)
(* path of the graph from the current vertex to that target of exactly     *)
(* that minimum cost, and the segment has one move per hop of that path.   *)
(***************************************************************************)
NearestNext ==
    LET t == best'.target_node
        p == best'.path
        costs == MinCosts(matrix_node, start)
    IN  /\ t \in Range(target_nodes)
        /\ \A u \in Range(target_nodes) : costs[t] <= costs[u]
        /\ IsPathOf(matrix_node, p) /\ p[1] = start /\ p[Len(p)] = t
        /\ PathCost(matrix_node, p) = costs[t]
        /\ best'.total_cost = costs[t]
        /\ Len(Emitted) = Len(p) - 1

NearestRemainingNext == [][Emits => NearestNext]_vars

\* A returned output of two segments that serves the caller's second target
\* first, the two targets being different cells.
SecondTargetServedFirst ==
    /\ Returned
    /\ Len(results) = 2
    /\ VLen(nodi_interesse) = 2
    /\ InteresseCorrected[0] # InteresseCorrected[1]
    /\ EndOf(StartCorrected, results[1]) = InteresseCorrected[1]
    /\ Len(results[1]) = 2

(***************************************************************************)
(* C5.  With discovery disabled no discovery request is issued and the     *)
(* filler never runs; every cell of the matrix returned that no known-cell *)
(* record was written to is the impassable pre-fill tile, is the source    *)
(* and the destination of no edge of the graph, and no segment of the      *)
(* output steps onto it.                                                   *)
(***************************************************************************)
UnknownCells == {cell \in CellsOf(mask_matrix) : ~mask_matrix[cell[1]][cell[2]][2]}

UnknownStaysImpassable ==
    ~discover =>
        /\ requests = <<>>
        /\ pc \notin {"fill", "panic_discovery"}
        /\ MatrixReturned =>
              \A cell \in UnknownCells :
                  /\ matrix[cell[1]][cell[2]] = LavaTile
                  /\ ~is_wakable(matrix[cell[1]][cell[2]])
        /\ GraphBuilt =>
              \A cell \in UnknownCells : \A e \in EdgeSet(matrix_node) :
                  e[1] # VertexOf(matrix, cell) /\ e[2] # VertexOf(matrix, cell)
        /\ Returned =>
              SteppedCells(StartCorrected, results) \cap UnknownCells = {}

\* Discovery is off, a segment has been returned, and the matrix has a cell
\* no record was written to next to a cell a segment stepped onto.
RoutedBesideUnknownCell ==
    /\ ~discover
    /\ Returned
    /\ Len(results) >= 1
    /\ \E cell \in UnknownCells :
          \E stepped \in SteppedCells(StartCorrected, results) : Adjacent(cell, stepped)

(***************************************************************************)
(* C6.  Elevation monotonicity.  For the map of the call and the map that  *)
(* differs from it only in one cell's elevation, raised strictly above the *)
(* elevation of a neighbour of the cell, the cost dijkstra finds from the  *)
(* start is not smaller in the raised map                                  *)
(*   (as claimed) for every target whose path from another cell goes to or *)
(*   through the cell, in both maps,                                       *)
(*   (as amended) for the cell itself.                                     *)
(***************************************************************************)
\* The map with the elevation of `cell` set to e.
Raised(m, cell, e) == [m EXCEPT ![cell[1]][cell[2]].elevation = e]
\* The raises of one cell of the map m strictly above a neighbour's elevation.
Raises(m) ==
    {<<cell, e>> \in CellsOf(m) \X (1..MaxElev) :
        /\ e > m[cell[1]][cell[2]].elevation
        /\ \E n \in CellsOf(m) : Adjacent(n, cell) /\ e > m[n[1]][n[2]].elevation}
\* The graph change_matrix builds of a map.
GraphOf(m) == change_matrix(m, EmptyVec, <<0, 0>>).matrix_node
\* The path the engine reconstructs from s to t.
EnginePath(graph, s, t) ==
    reconstruct_shortest_path(dijkstra(graph, s).predecessor, t)
\* A cost with None read as "no path".
CostOrInf(d) == IF d = None THEN INF ELSE d

ElevationMonotoneThrough ==
    pc = "graph" =>
        \A raise \in Raises(matrix) :
            LET c  == VertexOf(matrix, raise[1])
                g2 == GraphOf(Raised(matrix, raise[1], raise[2]))
                d1 == dijkstra(matrix_node, start).distance
                d2 == dijkstra(g2, start).distance
            IN  \A t \in Range(target_nodes) :
                    ( /\ c # start
                      /\ c \in Range(EnginePath(matrix_node, start, t))
                      /\ c \in Range(EnginePath(g2, start, t)) )
                    => CostOrInf(d2[t]) >= CostOrInf(d1[t])

ElevationMonotoneTo ==
    pc = "graph" =>
        \A raise \in Raises(matrix) :
            LET c  == VertexOf(matrix, raise[1])
                g2 == GraphOf(Raised(matrix, raise[1], raise[2]))
                d1 == dijkstra(matrix_node, start).distance
                d2 == dijkstra(g2, start).distance
            IN  CostOrInf(d2[c]) >= CostOrInf(d1[c])

\* The call's graph has a target two hops from the start, and raising the
\* cell in between above the start's elevation makes the way to that cell
\* strictly dearer.
RaisedCellCostsMore ==
    /\ pc = "graph"
    /\ \E raise \in Raises(matrix) :
          LET c  == VertexOf(matrix, raise[1])
              g2 == GraphOf(Raised(matrix, raise[1], raise[2]))
          IN  /\ c # start
              /\ dijkstra(matrix_node, start).distance[c] # None
              /\ dijkstra(g2, start).distance[c] > dijkstra(matrix_node, start).distance[c]
              /\ \E t \in Range(target_nodes) :
                    /\ t # c
                    /\ c \in Range(EnginePath(matrix_node, start, t))

(***************************************************************************)
(* C7.  A discovery request that fails (a request was issued and its cell  *)
(* got no tile) fails the whole call: the call has panicked, and no matrix,*)
(* no graph, no segment and no result exist.                               *)
(***************************************************************************)
DiscoveryFailed ==
    \E k \in 1..Len(requests) : ~mask_matrix[requests[k][1]][requests[k][2]][2]

DiscoveryFailureFailsCall ==
    DiscoveryFailed =>
        /\ pc = "panic_discovery"
        /\ matrix = EmptyVec /\ matrix_node = EmptyVec
        /\ final_path = <<>> /\ results = <<>>

\* A request failed although the start and a target are two known, walkable,
\* adjacent cells: a segment through known cells alone was there to return.
FailedWithKnownRoute ==
    /\ DiscoveryFailed
    /\ \E k \in DOMAIN nodi_interesse :
          LET s == StartCorrected
              t == InteresseCorrected[k]
          IN  /\ s \in CellsOf(mask_matrix) /\ t \in CellsOf(mask_matrix)
              /\ Adjacent(s, t)
              /\ mask_matrix[s[1]][s[2]][2] /\ is_wakable(mask_matrix[s[1]][s[2]][1])
              /\ mask_matrix[t[1]][t[2]][2] /\ is_wakable(mask_matrix[t[1]][t[2]][1])

(***************************************************************************)
(* C8.  A call with an empty target list fails before any computation: it  *)
(* panics at once, with no bounding box computed, no matrix allocated, no  *)
(* discovery request issued, no graph built and no result returned.        *)
(***************************************************************************)
EmptyTargetsAbortFirst ==
    VLen(nodi_interesse) = 0 =>
        /\ pc \in {"call", "panic_no_target"}
        /\ box = NoBox
        /\ mask_matrix = EmptyVec /\ new_matrix = EmptyVec /\ matrix = EmptyVec
        /\ requests = <<>>
        /\ matrix_node = EmptyVec
        /\ final_path = <<>> /\ results = <<>>

\* The panic of a call with no target, known cells, and discovery enabled.
EmptyTargetsPanicked ==
    /\ pc = "panic_no_target"
    /\ VLen(nodi_conosciuti) >= 1
    /\ discover

(***************************************************************************)
(* C9.  In an iteration whose minimum-cost candidate has no path, the      *)
(* candidate is removed from target_nodes in that iteration: after it the  *)
(* candidate is no longer among target_nodes.                              *)
(***************************************************************************)
NoPathCandidateDropped ==
    (pc = "route" /\ best.target_node # None /\ best.path = NoPath)
        => best.target_node \notin Range(target_nodes)

(***************************************************************************)
(* C10.  dijkstra from the start vertex terminates with, for every vertex  *)
(* v that a path leads to, distance[v] the minimum total weight of a path  *)
(* from the start to v and a predecessor chain from v back to the start    *)
(* along a path of the graph of exactly that weight, and with distance     *)
(* None for every other vertex; no vertex is expanded twice.               *)
(***************************************************************************)
DijkstraIsCorrect ==
    pc = "graph" =>
        LET d     == dijkstra(matrix_node, start)
            costs == MinCosts(matrix_node, start)
        IN  /\ d.heap = <<>>
            /\ \A v \in DOMAIN matrix_node :
                  IF costs[v] < INF
                  THEN LET chain == Reverse(WalkBack(d.predecessor, v))
                       IN  /\ d.distance[v] = costs[v]
                           /\ chain[1] = start /\ chain[Len(chain)] = v
                           /\ IsPathOf(matrix_node, chain)
                           /\ PathCost(matrix_node, chain) = costs[v]
                  ELSE d.distance[v] = None /\ d.predecessor[v] = None
            /\ \A i, j \in 1..Len(d.expanded) : d.expanded[i] = d.expanded[j] => i = j

\* A graph with an edge of weight 0 out of the start and a vertex whose
\* cheapest path from the start is not its direct edge.
DetourOverZeroWeightEdge ==
    /\ pc = "graph"
    /\ \E e \in EdgeSet(matrix_node) : e[1] = start /\ e[3] = 0
    /\ \E e \in EdgeSet(matrix_node) :
          e[1] = start /\ MinCosts(matrix_node, start)[e[2]] < e[3]

(***************************************************************************)
(* C11.  The graph of change_matrix has an edge from the vertex of cell s  *)
(* to the vertex of cell d exactly when s and d are walkable cells of the  *)
(* matrix and d is the cell above, below, left or right of s, and then     *)
(* exactly one; its weight is the terrain cost of d, plus the square of    *)
(* d.elevation - s.elevation when d is higher than s; an impassable cell   *)
(* has no outgoing edge.                                                   *)
(***************************************************************************)
\* The weight the terrain gives the step from cell s onto cell d.
StepWeight(m, s, d) ==
    LET from == m[s[1]][s[2]]
        to   == m[d[1]][d[2]]
        rise == to.elevation - from.elevation
    IN  PropsCost(to.tile_type) + (IF rise > 0 THEN rise * rise ELSE 0)

\* How many entries of the adjacency list of u name v.
EdgeCount(graph, u, v) == Cardinality({k \in 1..Len(graph[u]) : graph[u][k].index = v})

GraphMatchesTerrain ==
    GraphBuilt =>
        /\ DOMAIN matrix_node = 0..(Rows(matrix) * Cols(matrix) - 1)
        /\ \A e \in EdgeSet(matrix_node) : e[2] \in DOMAIN matrix_node
        /\ \A s, d \in CellsOf(matrix) :
              LET u == VertexOf(matrix, s)
                  v == VertexOf(matrix, d)
              IN  IF Walkable(matrix, s) /\ Walkable(matrix, d) /\ Adjacent(s, d)
                  THEN /\ EdgeCount(matrix_node, u, v) = 1
                       /\ <<u, v, StepWeight(matrix, s, d)>> \in EdgeSet(matrix_node)
                  ELSE EdgeCount(matrix_node, u, v) = 0
        /\ \A s \in CellsOf(matrix) :
              ~Walkable(matrix, s) => matrix_node[VertexOf(matrix, s)] = <<>>

\* A graph over a map with a climb of two levels, the descent back, and an
\* impassable cell beside a walkable one.
ClimbDescentAndWall ==
    /\ pc = "graph"
    /\ \E s, d \in CellsOf(matrix) :
          /\ Adjacent(s, d) /\ Walkable(matrix, s) /\ Walkable(matrix, d)
          /\ matrix[d[1]][d[2]].elevation = matrix[s[1]][s[2]].elevation + 2
          /\ <<VertexOf(matrix, s), VertexOf(matrix, d), StepWeight(matrix, s, d)>>
                \in EdgeSet(matrix_node)
          /\ <<VertexOf(matrix, d), VertexOf(matrix, s), StepWeight(matrix, d, s)>>
                \in EdgeSet(matrix_node)
          /\ StepWeight(matrix, s, d) = StepWeight(matrix, d, s) + 4
    /\ \E s, d \in CellsOf(matrix) :
          Adjacent(s, d) /\ Walkable(matrix, s) /\ ~Walkable(matrix, d)

(***************************************************************************)
(* C12.  For every non-empty target set, start and known-cell list, with   *)
(* coordinates of either sign, the matrix the normalizer allocates spans   *)
(* exactly the minimal bounding box of the known cells, the targets and    *)
(* the start: on each axis from the smallest to the largest coordinate     *)
(* among those inputs and no further.  The axes are read as the normalizer *)
(* reads them: the first component of a known cell with the second of a    *)
(* target and of the start (lib.rs:161-164, 252), and the other two.       *)
(***************************************************************************)
Normalized == pc \notin {"call", "panic_no_target"}

FirstAxis ==
    {nodi_conosciuti[k][1][1] : k \in DOMAIN nodi_conosciuti}
        \cup {nodi_interesse[k][2] : k \in DOMAIN nodi_interesse}
        \cup {starting_node[2]}
SecondAxis ==
    {nodi_conosciuti[k][1][2] : k \in DOMAIN nodi_conosciuti}
        \cup {nodi_interesse[k][1] : k \in DOMAIN nodi_interesse}
        \cup {starting_node[1]}

BoxIsMinimal ==
    Normalized =>
        /\ \A c \in FirstAxis : box.i_min_x <= c /\ c <= box.i_max_x
        /\ \A c \in SecondAxis : box.i_min_y <= c /\ c <= box.i_max_y
        /\ box.i_min_x \in FirstAxis /\ box.i_max_x \in FirstAxis
        /\ box.i_min_y \in SecondAxis /\ box.i_max_y \in SecondAxis
        /\ VLen(mask_matrix) = box.i_max_x - box.i_min_x + 1
        /\ \A r \in DOMAIN mask_matrix : VLen(mask_matrix[r]) = box.i_max_y - box.i_min_y + 1

(***************************************************************************)
(* C13.  For every input, the bounding box square or not, the normalizer   *)
(* writes the tile of every known-cell record into a cell inside the       *)
(* matrix it allocated (no write indexes outside it) and marks the cell    *)
(* known; the matrix stays rectangular, and every cell no record was       *)
(* written to holds the impassable pre-fill tile marked not known.         *)
(***************************************************************************)
\* The cell lib.rs:306-308 indexes for the k-th record.
WrittenCell(k) ==
    <<nodi_conosciuti[k][1][2] - box.i_min_y, nodi_conosciuti[k][1][1] - box.i_min_x>>

KnownWritesStayInside ==
    Normalized =>
        /\ pc # "panic_index"
        /\ \A r \in DOMAIN mask_matrix : VLen(mask_matrix[r]) = VLen(mask_matrix[0])
        /\ \A k \in DOMAIN nodi_conosciuti :
              /\ WrittenCell(k) \in CellsOf(mask_matrix)
              /\ mask_matrix[WrittenCell(k)[1]][WrittenCell(k)[2]][2]
              /\ \E j \in DOMAIN nodi_conosciuti :
                    /\ WrittenCell(j) = WrittenCell(k)
                    /\ mask_matrix[WrittenCell(k)[1]][WrittenCell(k)[2]][1]
                          = nodi_conosciuti[j][2]
        /\ ~discover =>
              \A cell \in CellsOf(mask_matrix) :
                  (\A k \in DOMAIN nodi_conosciuti : WrittenCell(k) # cell)
                      => mask_matrix[cell[1]][cell[2]] = <<LavaTile, FALSE>>

(***************************************************************************)
(* C14.  While filling, a cell that is not known and has a known cell      *)
(* among its 8 neighbours when it is processed receives the tile of a      *)
(* known neighbour whose cost is at least the cost of every other known    *)
(* neighbour (also when all of them cost 0), stays marked not known, and   *)
(* no discovery request is issued for it.                                  *)
(***************************************************************************)
\* The known cells among the 8 neighbours of (i, j).
KnownNeighbours(i, j) ==
    {c \in CellsOf(mask_matrix) :
        /\ c # <<i, j>>
        /\ c[1] - i \in {-1, 0, 1} /\ c[2] - j \in {-1, 0, 1}
        /\ mask_matrix[c[1]][c[2]][2]}

\* The filler is at a cell that is not known and has a known neighbour.
AtEstimableCell ==
    /\ pc = "fill"
    /\ ~mask_matrix[fi][fj][2]
    /\ KnownNeighbours(fi, fj) # {}

EstimatedFromKnownNeighbours ==
    [][ AtEstimableCell =>
          /\ requests' = requests
          /\ mask_matrix' = mask_matrix
          /\ pc' # "panic_discovery"
          /\ LET val == new_matrix'[fi][fj]
             IN  /\ ~val[2]
                 /\ \E c \in KnownNeighbours(fi, fj) : val[1] = mask_matrix[c[1]][c[2]][1]
                 /\ \A c \in KnownNeighbours(fi, fj) :
                       PropsCost(val[1].tile_type)
                           >= PropsCost(mask_matrix[c[1]][c[2]][1].tile_type) ]_vars

(***************************************************************************)
(* C15.  While filling, a discovery request is issued for a cell exactly   *)
(* when the cell is not known and none of its 8 neighbours is known when   *)
(* it is processed; a request names that single cell, no cell is requested *)
(* twice, the tile returned overwrites the cell and is marked known (so    *)
(* that it is a known neighbour for the cells processed later), and an     *)
(* estimated cell is never marked known.                                   *)
(***************************************************************************)
RequestIssued == requests' # requests

RequestedOnlyWithoutKnownNeighbours ==
    [][ pc = "fill" =>
          /\ RequestIssued <=> (~mask_matrix[fi][fj][2] /\ KnownNeighbours(fi, fj) = {})
          /\ RequestIssued =>
                /\ requests' = Append(requests, <<fi, fj>>)
                /\ <<fi, fj>> \notin Range(requests)
                /\ \/ pc' = "panic_discovery"
                   \/ /\ mask_matrix'[fi][fj][2]
                      /\ new_matrix'[fi][fj] = mask_matrix'[fi][fj]
                      /\ \A c \in CellsOf(mask_matrix) \ {<<fi, fj>>} :
                            mask_matrix'[c[1]][c[2]] = mask_matrix[c[1]][c[2]]
          /\ ~RequestIssued => mask_matrix' = mask_matrix ]_vars

(***************************************************************************)
(* C16.  For every matrix, every path reconstruct_shortest_path returns    *)
(* over its graph steps between cells whose (row, column) difference is    *)
(* one of (-1,0), (1,0), (0,-1), (0,1): no edge links the last cell of a   *)
(* row to the first cell of the next row (two cells that are neighbours    *)
(* only in a matrix of a single column, one below the other),              *)
(* path_to_directions returns no error, and shortest_path never returns    *)
(* the single empty segment that stands for that error.                    *)
(***************************************************************************)
UnitDeltas == {<<-1, 0>>, <<1, 0>>, <<0, -1>>, <<0, 1>>}
\* The (row, column) difference of two vertices through the coordinate map.
Delta(u, v) ==
    LET coordinates == get_coordinates(matrix)
    IN  <<coordinates[v][1] - coordinates[u][1], coordinates[v][2] - coordinates[u][2]>>

PathsStepByUnitMoves ==
    /\ results # << <<>> >>
    /\ GraphBuilt =>
          /\ \A e \in EdgeSet(matrix_node) : Delta(e[1], e[2]) \in UnitDeltas
          /\ \A u \in DOMAIN matrix_node :
                (/\ Cols(matrix) > 1
                 /\ u + 1 \in DOMAIN matrix_node /\ (u + 1) % Cols(matrix) = 0)
                    => EdgeCount(matrix_node, u, u + 1) = 0
    /\ pc \in {"graph", "route"} =>
          \A t \in DOMAIN matrix_node :
              LET path == EnginePath(matrix_node, start, t)
              IN  path # NoPath =>
                    /\ \A i \in 1..(Len(path) - 1) : Delta(path[i], path[i + 1]) \in UnitDeltas
                    /\ path_to_directions(get_coordinates(matrix), path).ok

\* A returned segment of two moves from the last cell of the first row to
\* the first cell of the second row of a map of two columns.
AroundTheRowEnd ==
    /\ Returned
    /\ Cols(matrix) = 2 /\ Rows(matrix) = 2
    /\ StartCorrected = <<0, 1>>
    /\ Len(results) = 1
    /\ Len(results[1]) = 2
    /\ EndOf(StartCorrected, results[1]) = <<1, 0>>

(***************************************************************************)
(* C17.  Known cells, targets and the start share one world-to-matrix      *)
(* transform: when normalization completes, a target or start coordinate   *)
(* equal to the coordinate of a known-cell record resolves to the vertex   *)
(* of the matrix cell that record's tile was written to, so the tile the   *)
(* planner holds for that vertex is a tile the caller supplied for the     *)
(* coordinate.                                                             *)
(***************************************************************************)
\* The records of the coordinate p.
RecordsAt(p) == {k \in DOMAIN nodi_conosciuti : nodi_conosciuti[k][1] = p}

OneTransform ==
    pc = "graph" =>
        /\ \A j \in DOMAIN nodi_interesse : \A k \in RecordsAt(nodi_interesse[j]) :
              /\ VertexOf(matrix, WrittenCell(k)) \in Range(target_nodes)
              /\ InteresseCorrected[j] = WrittenCell(k)
              /\ \E i \in RecordsAt(nodi_interesse[j]) :
                    matrix[InteresseCorrected[j][1]][InteresseCorrected[j][2]]
                        = nodi_conosciuti[i][2]
        /\ \A k \in RecordsAt(starting_node) :
              /\ start = VertexOf(matrix, WrittenCell(k))
              /\ StartCorrected = WrittenCell(k)

(***************************************************************************)
(* C18.  Every discovery request the filler issues for the matrix cell     *)
(* (i, j) names the world coordinate of that cell, the matrix-local index  *)
(* shifted back by the origin (i_min_x, i_min_y) of the bounding box, also *)
(* when the origin is not (0, 0); the tile stored in the cell is the       *)
(* world's tile at that coordinate.                                        *)
(***************************************************************************)
\* The world coordinate the cell (i, j) stands for.
WorldCoordinate(i, j) == <<i + box.i_min_x, j + box.i_min_y>>

RequestsNameWorldCoordinates ==
    [][ (pc = "fill" /\ RequestIssued) =>
          /\ requests'[Len(requests')] = WorldCoordinate(fi, fj)
          /\ pc' # "panic_discovery" =>
                mask_matrix'[fi][fj][1]
                    = WorldTile(world, WorldCoordinate(fi, fj)[1], WorldCoordinate(fi, fj)[2]) ]_vars

=============================================================================
